---- MODULE Spec2Model ----
(***************************************************************************)
(* Model of the AI parse route (src/server/routes/gemini-parse.ts):        *)
(* request validation, construction of the (model, apiVersion) candidate   *)
(* list, the sequential fallback sweep over the remote completion service  *)
(* and the assembly of the answer.                                         *)
(*                                                                         *)
(* Strings are sequences of tokens; a token stands for a fixed run of      *)
(* characters (" " is one blank, "-latest" the seven characters of the     *)
(* suffix, "k" some non-blank text, and so on).                            *)
(*                                                                         *)
(* The functions the handler normalises the completion with (extractJson,  *)
(* normalizeDigits, normalizeDateToISO, normalizeTime24, toIata,           *)
(* inferredType) and the Jalali calendar of booking-proxy.ts are operators *)
(* on strings of single characters; XjSpec, NdSpec, RecSpec, JalSpec,      *)
(* CalSpec and GregSpec evaluate them on their own, over bounded sets of   *)
(* arguments.                                                              *)
(***************************************************************************)
EXTENDS Integers, Sequences, FiniteSets, TLC

\* ------------------------------------------------------------------ bounds

\* longest preferred model name (in tokens) a request carries
MaxNameLen == 2

\* ----------------------------------------------------------------- strings

SP == " "
NL == "\n"
LATEST == "-latest"

IsSpace(t) == t \in {SP, NL}

RECURSIVE TrimStart(_)
TrimStart(s) ==
  IF s # <<>> /\ IsSpace(Head(s)) THEN TrimStart(Tail(s)) ELSE s

RECURSIVE TrimEnd(_)
TrimEnd(s) ==
  IF s # <<>> /\ IsSpace(s[Len(s)]) THEN TrimEnd(SubSeq(s, 1, Len(s) - 1)) ELSE s

\* String.prototype.trim
Trim(s) == TrimEnd(TrimStart(s))

\* String.prototype.endsWith("-latest")
EndsWithLatest(s) == s # <<>> /\ s[Len(s)] = LATEST

\* all token strings over alphabet A of length at most n
StringsUpTo(A, n) == UNION {[1..k -> A] : k \in 0..n}

\* ------------------------------------------------------- request body (JSON)

\* a field of the request body: absent, a string, a boolean, or a value of
\* some other JSON type (a number)
Absent == [t |-> "absent", v |-> <<>>]
Str(s) == [t |-> "string", v |-> s]
Bool(b) == [t |-> "boolean", v |-> IF b THEN <<"true">> ELSE <<"false">>]
Num == [t |-> "number", v |-> <<>>]

IsOptString(f) == f.t \in {"absent", "string"}
IsOptBoolean(f) == f.t \in {"absent", "boolean"}

\* RequestSchema.parse succeeds
SchemaOk(b) ==
  /\ b.text.t = "string" /\ Len(b.text.v) >= 1
  /\ IsOptString(b.apiKey)
  /\ IsOptString(b.targetLocale)
  /\ IsOptString(b.model)
  /\ IsOptBoolean(b.isTranslation)
  /\ IsOptBoolean(b.includeTranslation)

\* JavaScript truthiness of an optional string field / its value or ""
StrOr(f, dflt) == IF f.t = "string" /\ f.v # <<>> THEN f.v ELSE dflt

\* ApiKeyOf without the trim
ApiKeyUntrimmed(b, env) == StrOr(b.apiKey, IF env # <<>> THEN env ELSE <<>>)

\* (parsed.apiKey || process.env.GEMINI_API_KEY || "").trim()
ApiKeyOf(b, env) == Trim(StrOr(b.apiKey, IF env # <<>> THEN env ELSE <<>>))

IsTrue(f) == f.t = "boolean" /\ f.v = <<"true">>

\* ---------------------------------------------------------- candidate list

DefaultModels ==
  << <<"gemini-2.0-flash">>,
     <<"gemini-2.0-flash", LATEST>>,
     <<"gemini-1.5-flash", LATEST>>,
     <<"gemini-1.5-flash">> >>

ApiVersions == <<"v1beta", "v1">>

\* const msel = (parsed.model || "").trim()
Msel(b) == Trim(StrOr(b.model, <<>>))

\* the preferred models put in front of the defaults
Preferred(msel) ==
  IF msel # <<>>
    THEN <<msel, IF EndsWithLatest(msel) THEN msel ELSE Append(msel, LATEST)>>
    ELSE <<>>

Models(b) == Preferred(Msel(b)) \o DefaultModels

\* the (model, apiVersion) pairs in the order of the nested loops
CandidateList(ms) ==
  [i \in 1..(Len(ms) * Len(ApiVersions)) |->
     <<ms[((i - 1) \div Len(ApiVersions)) + 1],
       ApiVersions[((i - 1) % Len(ApiVersions)) + 1]>>]

\* ------------------------------------------------- remote completion service

\* HTTP statuses the service answers with; r.ok is status in 200..299
Statuses == {200, 404, 503}
IsOk(s) == s >= 200 /\ s <= 299

\* String.prototype.toLowerCase on the tokens bodies are made of (the /i flag)
Lower(t) ==
  CASE t = "NOT_FOUND" -> "not_found"
    [] t = "Not Found" -> "not found"
    [] t = "UNSUPPORTED" -> "unsupported"
    [] t = "DELAY" -> "delay"
    [] t = "Cancel" -> "cancel"
    [] t = "Number_Change" -> "number_change"
    [] OTHER -> t

\* /NOT_FOUND|not found|unsupported/i.test(body)
MatchesNotFound(b) ==
  \E i \in 1..Len(b) : Lower(b[i]) \in {"not_found", "not found", "unsupported"}

\* the test that lets the inner loop go on to the next API version
IsRecoverable(status, b) == status = 404 \/ MatchesNotFound(b)

\* bodies of failed responses
FailBodies ==
  { <<>>,
    <<"models/x: ", "Not Found">>,
    <<"quota exceeded">> }

\* completion texts a 2xx response may carry as its first text part
CompletionTexts ==
  { <<>>,
    <<"hello">>,
    <<"null">>,
    <<"5">>,
    <<"{", "}">>,
    <<SP, "{", "\"translated\":\"x\"", "}", NL>>,
    <<"<fence>", "json", NL, "{", "}", NL, "<fence>">> }

\* JSON bodies of 2xx responses: a falsy JSON value (null, false, 0, ""), an
\* object without candidates, or an object whose first candidate has a first
\* text part
NoData == [k |-> "none", text |-> <<>>]
OkBodies ==
  {[k |-> "falsy", text |-> <<>>], [k |-> "nocand", text |-> <<>>]}
    \cup {[k |-> "text", text |-> t] : t \in CompletionTexts}

\* JavaScript truthiness of okData
Truthy(d) == d.k \in {"nocand", "text"}

\* okData?.candidates?.[0]?.content?.parts?.[0]?.text ?? ""
FirstText(d) == IF d.k = "text" THEN d.text ELSE <<>>

\* ------------------------------------------------------------ extractJson

JNull == [k |-> "null", members |-> {}]
JThrow == [k |-> "throw", members |-> {}]
JEmptyObject == [k |-> "object", members |-> {}]

IsMember(t) == t \in {"\"translated\":\"x\""}
IsDigit(t) == t \in {"5"}

RECURSIVE DropSpaces(_)
DropSpaces(s) ==
  IF s = <<>> THEN <<>>
  ELSE IF IsSpace(Head(s)) THEN DropSpaces(Tail(s))
  ELSE <<Head(s)>> \o DropSpaces(Tail(s))

\* JSON.parse on a token string; JThrow stands for the SyntaxError
JsonParse(s) ==
  LET t == Trim(s)
      inner == IF Len(t) >= 2 THEN DropSpaces(SubSeq(t, 2, Len(t) - 1)) ELSE <<>>
  IN  CASE t = <<"null">> -> JNull
        [] t # <<>> /\ (\A i \in 1..Len(t) : IsDigit(t[i])) ->
             [k |-> "number", members |-> {}]
        [] Len(t) >= 2 /\ t[1] = "{" /\ t[Len(t)] = "}" /\ inner = <<>> -> JEmptyObject
        [] Len(t) >= 2 /\ t[1] = "{" /\ t[Len(t)] = "}"
             /\ Len(inner) = 1 /\ IsMember(inner[1]) ->
             [k |-> "object", members |-> {inner[1]}]
        [] OTHER -> JThrow

\* the ten digits of each script, by value: ASCII, Arabic-Indic (U+0660..0669,
\* "<ar5>" is U+0665) and Persian (U+06F0..06F9, "<fa5>" is U+06F5)
Digits == <<"0", "1", "2", "3", "4", "5", "6", "7", "8", "9">>
ArDigits ==
  <<"<ar0>", "<ar1>", "<ar2>", "<ar3>", "<ar4>", "<ar5>", "<ar6>", "<ar7>", "<ar8>", "<ar9>">>
FaDigits ==
  <<"<fa0>", "<fa1>", "<fa2>", "<fa3>", "<fa4>", "<fa5>", "<fa6>", "<fa7>", "<fa8>", "<fa9>">>

\* the character class [<ar0>-<ar9><fa0>-<fa9>] of normalizeDigits
IsLocalDigit(c) == \E v \in 1..10 : c \in {ArDigits[v], FaDigits[v]}

\* the map with the Arabic-Indic digits only
MapArabicOnly(c) ==
  IF \E v \in 1..10 : c = ArDigits[v]
    THEN Digits[CHOOSE v \in 1..10 : c = ArDigits[v]]
    ELSE c

\* map[d] || d
MapDigit(c) ==
  IF IsLocalDigit(c)
    THEN Digits[CHOOSE v \in 1..10 : c \in {ArDigits[v], FaDigits[v]}]
    ELSE c

\* normalizeDigits: input.replace(/[<ar0>-<ar9><fa0>-<fa9>]/g, (d) => map[d] || d)
NormalizeDigits(s) == [i \in 1..Len(s) |-> MapDigit(s[i])]

IndexesOf(s, t) == {i \in 1..Len(s) : s[i] = t}
Min(S) == CHOOSE x \in S : \A y \in S : x <= y
Max(S) == CHOOSE x \in S : \A y \in S : x >= y

\* the token of three back-ticks
FENCE == "<fence>"

\* tokens made of word characters only (\w)
IsWord(t) == t \in {"json", "hello", "null", "5"}

\* the end of the run of word tokens that starts at position i
RECURSIVE WordRunEnd(_, _)
WordRunEnd(s, i) == IF i <= Len(s) /\ IsWord(s[i]) THEN WordRunEnd(s, i + 1) ELSE i

\* cleaned.match(/<fence>\w*\n([\s\S]*?)<fence>/): the opening fences that match, each
\* followed by word characters, a newline and, later, a closing fence
FenceStarts(s) ==
  {i \in 1..Len(s) :
     /\ s[i] = FENCE
     /\ LET j == WordRunEnd(s, i + 1)
        IN  /\ j <= Len(s) /\ s[j] = NL
            /\ \E c \in (j + 1)..Len(s) : s[c] = FENCE}

\* fence[1]: the text between the newline and the first closing fence
FenceBody(s) ==
  LET i == Min(FenceStarts(s))
      j == WordRunEnd(s, i + 1)
      c == Min({x \in (j + 1)..Len(s) : s[x] = FENCE})
  IN  SubSeq(s, j + 1, c - 1)

\* JsonStr with the fence left where it is: the braces are sought in the
\* whole trimmed text
JsonStrNoFence(text) ==
  LET body == Trim(text)
      first == IndexesOf(body, "{")
      last == IndexesOf(body, "}")
  IN  IF first # {} /\ last # {}
        THEN SubSeq(body, Min(first), Max(last))
        ELSE body

\* jsonStr: the text handed to JSON.parse
JsonStr(text) ==
  LET cleaned == Trim(text)
      body == IF FenceStarts(cleaned) # {} THEN FenceBody(cleaned) ELSE cleaned
      first == IndexesOf(body, "{")
      last == IndexesOf(body, "}")
  IN  IF first # {} /\ last # {}
        THEN SubSeq(body, Min(first), Max(last))
        ELSE body

\* the inner catch with the error of the second parse escaping
OrRethrow(v) == v

\* the inner try/catch: the value of the second parse, or {} when it threw
OrEmptyObject(v) == IF v.k = "throw" THEN JEmptyObject ELSE v

ExtractJson(text) ==
  LET jsonStr == JsonStr(text)
      raw == JsonParse(jsonStr)
  IN  IF raw.k # "throw" THEN raw
      ELSE OrEmptyObject(JsonParse(NormalizeDigits(jsonStr)))

\* ------------------------------------------------------------------- state

VARIABLES
  body,        \* req.body: the fields of the request
  env,         \* process.env.GEMINI_API_KEY ("" when unset)
  pc,          \* where the handler is: "start", "fetch", "body", "done"
  mode,        \* "none", "translate" (isTranslation) or "extract"
  models,      \* the model names of this sweep
  mi, vi,      \* positions of the outer (model) and inner (version) loops
  rStatus,     \* r.status of the response being handled
  okData, okText, lastStatus, lastBody,
  res,         \* the answer sent to the caller
  inflight,    \* completion requests issued and not yet fully read
  attempts,    \* loop positions [m, v] of the requests issued, in order
  sweeps,      \* candidate sweeps started by this invocation
  last,        \* how the most recent settled attempt ended
  onlyNotFound, \* every attempt that failed so far failed as not-found/unsupported
  saw2xx,      \* some attempt of the sweep was answered with a 2xx status
  fn,          \* the function evaluated on its own ("none" while the handler runs)
  arg,         \* its argument
  ret          \* how far its evaluation is, and what it returned

\* the state of the handler, and of a function evaluated on its own
hvars ==
  <<body, env, pc, mode, models, mi, vi, rStatus, okData, okText, lastStatus,
    lastBody, res, inflight, attempts, sweeps, last, onlyNotFound, saw2xx>>
fvars == <<fn, arg, ret>>

vars == <<hvars, fvars>>

NoRes == [kind |-> "none", status |-> 0, message |-> <<>>, raw |-> <<>>,
          translated |-> <<>>, hasTranslated |-> FALSE]
NoLast == [kind |-> "none", status |-> 0, body |-> <<>>]

\* res.status(status).json({ error: true, message })
ErrorRes(status, message) ==
  [NoRes EXCEPT !.kind = "error", !.status = status, !.message = message]

\* the catch block: status 400 with err.message
CatchRes(message) == ErrorRes(400, message)

\* ------------------------------------------------------------------ inputs

NameTokens == {SP, "gemini-1.5-flash", LATEST}

TextInputs == {Absent, Str(<<>>), Str(<<"t">>), Num}
KeyInputs == {Absent, Str(<<SP>>), Str(<<"k">>), Num}
EnvInputs == {<<>>, <<SP>>, <<"k">>}
LocaleInputs == {Absent, Num}
ModelInputs == {Absent, Num} \cup {Str(n) : n \in StringsUpTo(NameTokens, MaxNameLen)}
FlagInputs == {Absent, Bool(TRUE), Num}

Bodies ==
  [text : TextInputs, apiKey : KeyInputs, targetLocale : LocaleInputs,
   model : ModelInputs, isTranslation : FlagInputs, includeTranslation : FlagInputs]

\* a plain extraction request, and the number of fields in which a request
\* (with its environment) departs from it
PlainBody ==
  [text |-> Str(<<"t">>), apiKey |-> Str(<<"k">>), targetLocale |-> Absent,
   model |-> Absent, isTranslation |-> Absent, includeTranslation |-> Absent]

Fields == {"text", "apiKey", "targetLocale", "model", "isTranslation", "includeTranslation"}

Departures(b, e) ==
  Cardinality({f \in Fields : b[f] # PlainBody[f]}) + (IF e # <<>> THEN 1 ELSE 0)

\* the requests explored: every request that departs from the plain one in at
\* most one field, every combination of the two mode flags, and every
\* combination of the key in the request with the key in the environment
Requests ==
  {r \in Bodies \X EnvInputs :
     \/ Departures(r[1], r[2]) <= 1
     \/ \A f \in Fields \ {"isTranslation", "includeTranslation"} :
          r[1][f] = PlainBody[f]
     \/ \A f \in Fields \ {"apiKey"} : r[1][f] = PlainBody[f]}

\* the handler before it has looked at the request
Idle ==
  /\ pc = "start"
  /\ mode = "none"
  /\ models = <<>>
  /\ mi = 0 /\ vi = 0
  /\ rStatus = 0
  /\ okData = NoData /\ okText = <<>>
  /\ lastStatus = 0 /\ lastBody = <<>>
  /\ res = NoRes
  /\ inflight = 0
  /\ attempts = <<>>
  /\ sweeps = 0
  /\ last = NoLast
  /\ onlyNotFound = TRUE
  /\ saw2xx = FALSE

\* no function is evaluated on its own
NoCall == fn = "none" /\ arg = <<>> /\ ret = <<>>

Init ==
  /\ \E r \in Requests : body = r[1] /\ env = r[2]
  /\ Idle
  /\ NoCall

\* ------------------------------------------------------------ the handler

NoPos == [m |-> 0, v |-> 0]

\* NextPos with the break of a non-recoverable failure leaving both loops
NextPosStopAll(okD, brk) ==
  IF brk THEN NoPos
  ELSE IF vi < Len(ApiVersions) THEN [m |-> mi, v |-> vi + 1]
  ELSE IF mi < Len(models) THEN [m |-> mi + 1, v |-> 1]
  ELSE NoPos

\* NextPos with a recoverable failure moving on to the next model at once
NextPosSkipVersion(okD, brk) ==
  IF ~Truthy(okD) /\ mi < Len(models) THEN [m |-> mi + 1, v |-> 1] ELSE NoPos

\* NextPos with a failed last candidate starting the list over
NextPosAgain(okD, brk) ==
  IF ~brk /\ vi < Len(ApiVersions) THEN [m |-> mi, v |-> vi + 1]
  ELSE IF ~Truthy(okD) /\ mi < Len(models) THEN [m |-> mi + 1, v |-> 1]
  ELSE IF ~Truthy(okD) THEN [m |-> 1, v |-> 1]
  ELSE NoPos

\* NextPos with a non-recoverable failure leaving no loop
NextPosSameModel(okD, brk) ==
  IF vi < Len(ApiVersions) THEN [m |-> mi, v |-> vi + 1]
  ELSE IF ~Truthy(okD) /\ mi < Len(models) THEN [m |-> mi + 1, v |-> 1]
  ELSE NoPos

\* The loop position of the next request, NoPos when both loops are over.
\* brk: the inner loop was left by break; okD: okData after this iteration.
NextPos(okD, brk) ==
  IF ~brk /\ vi < Len(ApiVersions) THEN [m |-> mi, v |-> vi + 1]
  ELSE IF ~Truthy(okD) /\ mi < Len(models) THEN [m |-> mi + 1, v |-> 1]
  ELSE NoPos

DefaultMessage ==
  IF mode = "translate" THEN <<"Translation request failed">>
  ELSE <<"Gemini request failed">>

\* String(obj.translated || "").trim()
TranslatedOf(obj) ==
  IF "\"translated\":\"x\"" \in obj.members THEN <<"x">> ELSE <<>>

\* Answer with the upstream status dropped from the error
AnswerStatus500(okD, okT, lS, lB) ==
  IF ~Truthy(okD) THEN ErrorRes(500, IF lB # <<>> THEN lB ELSE DefaultMessage)
  ELSE [NoRes EXCEPT !.kind = "record", !.status = 200, !.raw = okT]

\* Answer with a record assembled whether or not the sweep succeeded
AnswerAlways(okD, okT, lS, lB) ==
  [NoRes EXCEPT !.kind = "record", !.status = 200, !.raw = okT,
     !.hasTranslated = IsTrue(body.includeTranslation),
     !.translated = IF IsTrue(body.includeTranslation)
                      THEN TranslatedOf(ExtractJson(okT)) ELSE <<>>]

\* Answer with the completion of a translation request put through the
\* extraction like any other
AnswerExtractsAlways(okD, okT, lS, lB) ==
  IF ~Truthy(okD) THEN ErrorRes(lS, IF lB # <<>> THEN lB ELSE DefaultMessage)
  ELSE LET obj == ExtractJson(okT)
       IN  IF obj.k = "null"
             THEN CatchRes(<<"Cannot read properties of null">>)
             ELSE [NoRes EXCEPT !.kind = "record", !.status = 200, !.raw = okT,
                     !.hasTranslated = IsTrue(body.includeTranslation),
                     !.translated = IF IsTrue(body.includeTranslation)
                                      THEN TranslatedOf(obj) ELSE <<>>]

\* The answer once the loops are over. Of the record, the state keeps the raw
\* completion text and the translated field; obj.airline is the first read of
\* obj and throws a TypeError when obj is null.
Answer(okD, okT, lS, lB) ==
  IF ~Truthy(okD) THEN ErrorRes(lS, IF lB # <<>> THEN lB ELSE DefaultMessage)
  ELSE IF mode = "translate"
    THEN [NoRes EXCEPT !.kind = "translated", !.status = 200, !.translated = Trim(okT)]
  ELSE LET obj == ExtractJson(okT)
       IN  IF obj.k = "null"
             THEN CatchRes(<<"Cannot read properties of null">>)
             ELSE [NoRes EXCEPT !.kind = "record", !.status = 200, !.raw = okT,
                     !.hasTranslated = IsTrue(body.includeTranslation),
                     !.translated = IF IsTrue(body.includeTranslation)
                                      THEN TranslatedOf(obj) ELSE <<>>]

\* AfterRead with the body of the response left unread
AfterReadUnread(n) == n

\* requests in flight once a response body has been read to its end
AfterRead(n) == n - 1

\* fetch(url, ...) for loop position p
Issue(p, n) ==
  /\ mi' = p.m /\ vi' = p.v
  /\ attempts' = Append(attempts, p)
  /\ inflight' = n + 1
  /\ pc' = "fetch"

\* the handler ends with the answer a
Reply(a, n) ==
  /\ res' = a
  /\ inflight' = n
  /\ pc' = "done"
  /\ UNCHANGED <<mi, vi, attempts>>

\* The rest of the loop body after the response body was read, up to the next
\* await: the next fetch, or the answer.
Proceed(okD, okT, lB, brk) ==
  /\ okData' = okD /\ okText' = okT /\ lastBody' = lB
  /\ LET p == NextPos(okD, brk)
     IN  IF p # NoPos
           THEN Issue(p, AfterRead(inflight)) /\ UNCHANGED res
           ELSE Reply(Answer(okD, okT, lastStatus, lB), AfterRead(inflight))

\* From the arrival of the request to the first await.
HandleRequest ==
  /\ pc = "start"
  /\ IF ~SchemaOk(body)
       THEN /\ Reply(CatchRes(<<"ZodError">>), inflight)
            /\ UNCHANGED <<mode, models, sweeps, lastStatus>>
     ELSE IF ApiKeyOf(body, env) = <<>>
       THEN /\ Reply(ErrorRes(400, <<"Gemini API key is required">>), inflight)
            /\ UNCHANGED <<mode, models, sweeps, lastStatus>>
     ELSE /\ mode' = IF IsTrue(body.isTranslation) THEN "translate" ELSE "extract"
          /\ models' = Models(body)
          /\ sweeps' = sweeps + 1
          /\ lastStatus' = 500
          /\ Issue([m |-> 1, v |-> 1], inflight)
          /\ UNCHANGED res
  /\ UNCHANGED <<body, env, rStatus, okData, okText, lastBody, last, onlyNotFound, saw2xx>>
  /\ UNCHANGED fvars

\* await fetch(...) settles: a response with a status, or a rejection.
FetchSettled ==
  /\ pc = "fetch"
  /\ \/ \E s \in Statuses :
          /\ rStatus' = s
          /\ lastStatus' = IF IsOk(s) THEN lastStatus ELSE s
          /\ saw2xx' = (saw2xx \/ IsOk(s))
          /\ pc' = "body"
          /\ UNCHANGED <<res, inflight, last, onlyNotFound>>
     \/ /\ res' = CatchRes(<<"fetch failed">>)
        /\ inflight' = inflight - 1
        /\ last' = [kind |-> "rejected", status |-> 0, body |-> <<>>]
        /\ onlyNotFound' = FALSE
        /\ pc' = "done"
        /\ UNCHANGED <<rStatus, lastStatus, saw2xx>>
  /\ UNCHANGED <<body, env, mode, models, mi, vi, okData, okText, lastBody,
                 attempts, sweeps>>
  /\ UNCHANGED fvars

\* await r.json() / await r.text() settles.
BodySettled ==
  /\ pc = "body"
  /\ \/ /\ IsOk(rStatus)
        /\ \E d \in OkBodies :
             /\ last' = [kind |-> "ok", status |-> rStatus, body |-> <<>>]
             /\ onlyNotFound' = (onlyNotFound /\ Truthy(d))
             /\ Proceed(d, FirstText(d), lastBody, TRUE)
     \/ /\ ~IsOk(rStatus)
        /\ \E b \in FailBodies :
             /\ last' = [kind |-> "failed", status |-> rStatus, body |-> b]
             /\ onlyNotFound' = (onlyNotFound /\ IsRecoverable(rStatus, b))
             /\ Proceed(okData, okText, b, ~IsRecoverable(rStatus, b))
     \/ /\ res' = CatchRes(<<"body could not be read">>)
        /\ inflight' = inflight - 1
        /\ last' = [kind |-> "unreadable", status |-> rStatus, body |-> <<>>]
        /\ onlyNotFound' = FALSE
        /\ pc' = "done"
        /\ UNCHANGED <<mi, vi, attempts, okData, okText, lastBody>>
  /\ UNCHANGED <<body, env, mode, models, rStatus, lastStatus, sweeps, saw2xx>>
  /\ UNCHANGED fvars

Next == HandleRequest \/ FetchSettled \/ BodySettled

Spec == Init /\ [][Next]_vars

\* The handler run to its end: every awaited network call settles eventually
\* (the event loop resumes the handler whenever a promise it awaits settles).
\* The requests are the plain one and those that name a preferred model.
FairInit ==
  /\ Init
  /\ env = <<>>
  /\ \A f \in Fields \ {"model"} : body[f] = PlainBody[f]
  /\ body.model \in {Absent, Str(<<"gemini-1.5-flash">>), Str(<<"gemini-1.5-flash", LATEST>>)}

FairSpec ==
  /\ FairInit /\ [][Next]_vars
  /\ WF_vars(HandleRequest) /\ WF_vars(FetchSettled) /\ WF_vars(BodySettled)

\* --------------------------------------------------------------- vocabulary

\* index in CandidateList(models) of a loop position
Idx(p) == (p.m - 1) * Len(ApiVersions) + p.v

NumCandidates == Len(models) * Len(ApiVersions)

Attempted == {Idx(attempts[i]) : i \in 1..Len(attempts)}

LastAttempt == attempts[Len(attempts)]

\* the sweep is over and no attempt of it was answered with a 2xx status
SweepFailed == pc = "done" /\ attempts # <<>> /\ ~saw2xx

\* this step issues one more request after an earlier one
IssuesNext == attempts # <<>> /\ Len(attempts') = Len(attempts) + 1

\* this step reads the body of a failed response; it is (not) a not-found failure
FailsNotFound ==
  pc = "body" /\ last'.kind = "failed" /\ IsRecoverable(last'.status, last'.body)
FailsOtherwise ==
  pc = "body" /\ last'.kind = "failed" /\ ~IsRecoverable(last'.status, last'.body)

\* ------------------------------------------------------------------- claims

C2_FirstSuccessEndsSweep ==
  saw2xx => /\ pc \in {"body", "done"}
            /\ (pc = "done" /\ last.kind = "ok" => okText = FirstText(okData))
            /\ (pc = "done" /\ res.kind = "record" => res.raw = FirstText(okData))

\* C3: a 404 / not-found / unsupported failure is followed by the request to
\* the immediately following candidate of the list; so when the first k
\* candidates fail this way and candidate k+1 answers 200 with text T, the
\* sweep ends with T after the attempts 1..k+1 and nothing else.
C3_NextCandidateInOrder ==
  /\ [][FailsNotFound /\ Idx(LastAttempt) < NumCandidates =>
          /\ Len(attempts') = Len(attempts) + 1
          /\ <<models[attempts'[Len(attempts')].m], ApiVersions[attempts'[Len(attempts')].v]>>
               = CandidateList(models)[Idx(LastAttempt) + 1]]_vars
  /\ [](onlyNotFound /\ last.kind = "ok" /\ okData.k = "text" =>
          /\ pc = "done"
          /\ \A i \in 1..Len(attempts) : Idx(attempts[i]) = i
          /\ okText = okData.text
          /\ res.kind \in {"record", "translated"} => res.status = 200)
  /\ [][pc = "done" => attempts' = attempts]_vars

\* C3 witness: two not-found failures, then 200 with a text: three attempts
C3_Witness ==
  /\ onlyNotFound /\ last.kind = "ok" /\ okData.k = "text"
  /\ Len(attempts) = 3
  /\ okText = <<"hello">>
  /\ pc = "done"

ClaimedModels(b) ==
  LET m == Trim(IF b.model.t = "string" THEN b.model.v ELSE <<>>)
  IN  (IF m = <<>> THEN <<>>
       ELSE IF EndsWithLatest(m) THEN <<m>>
       ELSE <<m, m \o <<LATEST>> >>) \o DefaultModels

\* C5: the candidates are the trimmed preferred model, then its -latest
\* variant unless the name already ends in -latest, then the default models,
\* each with the versions v1beta, v1 in this order.
C5_CandidateList ==
  mode # "none" =>
    LET cm == ClaimedModels(body)
    IN  CandidateList(models) =
          [i \in 1..(2 * Len(cm)) |->
             <<cm[((i - 1) \div 2) + 1], IF i % 2 = 1 THEN "v1beta" ELSE "v1">>]

\* C6: at most one completion request is in flight; a further request is
\* issued only in the step that has read the body of the previous response.
C6_OneInFlight ==
  /\ [](inflight <= 1)
  /\ [][IssuesNext =>
          /\ pc = "body" /\ inflight = 1
          /\ last'.kind \in {"failed", "ok"}
          /\ inflight' = 1]_vars

\* C6 witness: a second request is in flight, alone
C6_Witness == Len(attempts) >= 2 /\ pc = "fetch" /\ inflight = 1

\* C7: when every network call settles, the handler ends; a sweep makes at
\* most |models| x |api versions| attempts, and no position of the candidate
\* list is attempted twice (the positions attempted strictly increase).
C7_Terminates ==
  /\ <>(pc = "done")
  /\ [](Len(attempts) <= NumCandidates)
  /\ [](\A i, j \in 1..Len(attempts) : i < j => Idx(attempts[i]) < Idx(attempts[j]))

\* C7 witness: the worst case, every candidate of a six-model list attempted
C7_Witness == pc = "done" /\ Len(models) = 6 /\ Len(attempts) = 12

Malformed(b) ==
  \/ b.text.t # "string" \/ b.text.v = <<>>
  \/ \E f \in {"apiKey", "targetLocale", "model"} : b[f].t \notin {"absent", "string"}
  \/ \E f \in {"isTranslation", "includeTranslation"} : b[f].t \notin {"absent", "boolean"}

\* no API key in the request nor in the environment, once trimmed
NoApiKey(b, e) ==
  /\ b.apiKey.t = "absent" \/ (b.apiKey.t = "string" /\ Trim(b.apiKey.v) = <<>>)
  /\ Trim(e) = <<>>

\* C9: a malformed request, or one with no API key available, is answered
\* with an error and no completion request is ever issued for it.
C9_NoCallForBadRequest ==
  (Malformed(body) \/ NoApiKey(body, env)) =>
     /\ attempts = <<>> /\ inflight = 0 /\ sweeps = 0
     /\ pc \in {"start", "done"}
     /\ (pc = "done" => res.kind = "error" /\ res.status = 400)

\* C9 witness: a well-formed request with a blank key and no key in the
\* environment has been answered
C9_Witness ==
  /\ pc = "done" /\ ~Malformed(body)
  /\ body.apiKey = Str(<<SP>>) /\ env = <<SP>>
  /\ res.kind = "error"

\* C10: a successful completion in extraction mode is always answered with a
\* record, whatever the completion text.
C10_AlwaysARecord ==
  (pc = "done" /\ mode = "extract" /\ Truthy(okData)) => res.kind = "record"

\* ----------------------------------------------- extractJson on its own

\* longest completion text (in tokens) handed to extractJson
MaxTextLen == 5

TextTokens == {FENCE, NL, "{", "}", "null", "<fa5>", "hello"}

XjStart == [at |-> "select", jsonStr |-> <<>>, tried |-> <<>>, value |-> JThrow]

XjInit ==
  /\ body = PlainBody /\ env = <<>> /\ Idle
  /\ fn = "extractJson"
  /\ arg \in StringsUpTo(TextTokens, MaxTextLen)
  /\ ret = XjStart

\* trim, fence, first and last brace: the text to parse is chosen
XjSelect ==
  /\ fn = "extractJson" /\ ret.at = "select"
  /\ ret' = [ret EXCEPT !.at = "raw", !.jsonStr = JsonStr(arg)]
  /\ UNCHANGED <<hvars, fn, arg>>

\* try { return JSON.parse(jsonStr) }
XjParseRaw ==
  /\ fn = "extractJson" /\ ret.at = "raw"
  /\ LET v == JsonParse(ret.jsonStr)
     IN  ret' = [ret EXCEPT !.tried = Append(@, "raw"),
                            !.at = IF v.k = "throw" THEN "normalized" ELSE "returned",
                            !.value = v]
  /\ UNCHANGED <<hvars, fn, arg>>

\* catch { try { return JSON.parse(normalizeDigits(jsonStr)) } catch { return {} } }
XjParseNormalized ==
  /\ fn = "extractJson" /\ ret.at = "normalized"
  /\ ret' = [ret EXCEPT !.tried = Append(@, "normalized"),
                         !.at = "returned",
                         !.value = OrEmptyObject(JsonParse(NormalizeDigits(ret.jsonStr)))]
  /\ UNCHANGED <<hvars, fn, arg>>

XjNext == XjSelect \/ XjParseRaw \/ XjParseNormalized

XjSpec == XjInit /\ [][XjNext]_vars

\* C11: extractJson never raises: what it returns is a value, never an error;
\* when neither the selected text nor its digit-normalised form parses it
\* returns the empty object; and the digit-normalised parse is attempted only
\* after the raw parse, and only when the raw parse has thrown.  What the
\* steps return is what extractJson returns to the handler.
C11_ExtractJsonFailSoft ==
  fn = "extractJson" =>
    /\ ret.at = "returned" =>
          /\ ret.value.k # "throw"
          /\ ret.value = ExtractJson(arg)
          /\ (/\ JsonParse(ret.jsonStr).k = "throw"
              /\ JsonParse(NormalizeDigits(ret.jsonStr)).k = "throw")
               => ret.value = JEmptyObject
    /\ \A i \in 1..Len(ret.tried) :
          ret.tried[i] = "normalized" =>
            /\ i = 2 /\ ret.tried[1] = "raw"
            /\ JsonParse(ret.jsonStr).k = "throw"

\* prose without JSON was handed in, both parses threw, {} was returned
C11_Witness ==
  /\ fn = "extractJson" /\ arg = <<"hello", NL, "hello">>
  /\ ret.at = "returned" /\ ret.tried = <<"raw", "normalized">>
  /\ ret.value = JEmptyObject

\* ------------------------------------------------------- normalizeDateToISO

\* \d
IsDec(c) == \E v \in 1..10 : c = Digits[v]

\* parseInt(s, 10) on a string of ASCII digits
RECURSIVE ParseInt(_)
ParseInt(s) ==
  IF s = <<>> THEN 0
  ELSE 10 * ParseInt(SubSeq(s, 1, Len(s) - 1))
         + (CHOOSE v \in 0..9 : Digits[v + 1] = s[Len(s)])

\* Number.prototype.toString of a natural number
RECURSIVE NumToString(_)
NumToString(n) ==
  IF n < 10 THEN <<Digits[n + 1]>> ELSE NumToString(n \div 10) \o <<Digits[(n % 10) + 1]>>

\* String.prototype.padStart(w, "0")
RECURSIVE PadStart(_, _)
PadStart(s, w) == IF Len(s) >= w THEN s ELSE PadStart(<<"0">> \o s, w)

\* String.prototype.replace(/c/g, d) for a single character c
ReplaceAll(s, c, d) == [i \in 1..Len(s) |-> IF s[i] = c THEN d ELSE s[i]]

\* s.match(/^(\d{4})[\/](\d{1,2})[\/](\d{1,2})$/): the three groups, or <<>>
MatchDate(s) ==
  LET sl == IndexesOf(s, "/")
      p == Min(sl)
      q == Max(sl)
  IN  IF /\ Cardinality(sl) = 2
         /\ p = 5 /\ q - p - 1 \in 1..2 /\ Len(s) - q \in 1..2
         /\ \A i \in (1..Len(s)) \ sl : IsDec(s[i])
        THEN <<SubSeq(s, 1, 4), SubSeq(s, p + 1, q - 1), SubSeq(s, q + 1, Len(s))>>
        ELSE <<>>

\* `${y.toString().padStart(4, "0")}-${mo...padStart(2, "0")}-${d...padStart(2, "0")}`
IsoDate(y, mo, d) ==
  PadStart(NumToString(y), 4) \o <<"-">> \o PadStart(NumToString(mo), 2)
    \o <<"-">> \o PadStart(NumToString(d), 2)

\* normalizeDateToISO of gemini-parse.ts, the copy the route /api/ai/parse
\* runs; <<>> stands for undefined (the function never returns "")
NormalizeDateToISO(input) ==
  IF input = <<>> THEN <<>>
  ELSE
    LET s == Trim(ReplaceAll(ReplaceAll(NormalizeDigits(input), ".", "/"), "-", "/"))
        m == MatchDate(s)
    IN  IF m = <<>> THEN <<>>
        ELSE
          LET y == ParseInt(m[1])
              mo == ParseInt(m[2])
              d == ParseInt(m[3])
          IN  IF (y >= 1300 /\ y <= 1499) \/ (y > 1900 /\ y < 3000)
                THEN IsoDate(y, mo, d)
                ELSE <<>>

\* ------------------------------------- Jalali calendar (booking-proxy.ts)

\* Math.trunc(a / b) and a - Math.trunc(a / b) * b, for b > 0
Div(a, b) == IF a >= 0 THEN a \div b ELSE -((-a) \div b)
Mod(a, b) == a - Div(a, b) * b

JALALI_BREAKS ==
  <<-61, 9, 38, 199, 426, 686, 756, 818, 1111, 1181, 1210, 1635, 2060, 2097,
    2192, 2262, 2324, 2394, 2456, 3178>>

\* g2d without the century correction of its second statement
G2dJulian(gy, gm, gd) ==
  Div((gy + Div(gm - 8, 6) + 100100) * 1461, 4)
    + Div(153 * Mod(gm + 9, 12) + 2, 5) + gd - 34840408

G2d(gy, gm, gd) ==
  LET d == Div((gy + Div(gm - 8, 6) + 100100) * 1461, 4)
             + Div(153 * Mod(gm + 9, 12) + 2, 5) + gd - 34840408
  IN  d - Div(Div(gy + 100100 + Div(gm - 8, 6), 100) * 3, 4) + 752

D2g(jdn) ==
  LET j == 4 * jdn + 139361631
             + Div(Div(4 * jdn + 183187720, 146097) * 3, 4) * 4 - 3908
      i == Div(Mod(j, 1461), 4) * 5 + 308
      gd == Div(Mod(i, 153), 5) + 1
      gm == Mod(Div(i, 153), 12) + 1
      gy == Div(j, 1461) - 100100 + Div(8 - gm, 6)
  IN  [gy |-> gy, gm |-> gm, gd |-> gd]

\* the for loop of jalCal from index i on: jp, jump and leapJ when it ends
RECURSIVE BreaksWalk(_, _, _, _, _)
BreaksWalk(jy, i, jp, jump, leapJ) ==
  IF i > Len(JALALI_BREAKS) - 1 THEN [jp |-> jp, jump |-> jump, leapJ |-> leapJ]
  ELSE
    LET jm == JALALI_BREAKS[i + 1]
        jump2 == jm - jp
    IN  IF jy < jm THEN [jp |-> jp, jump |-> jump2, leapJ |-> leapJ]
        ELSE BreaksWalk(jy, i + 1, jm, jump2,
                        leapJ + Div(jump2, 33) * 8 + Div(Mod(jump2, 33), 4))

\* march as the breakpoint table gives it: 20 + leapJ - leapG
TableMarch(jy) ==
  LET w == BreaksWalk(jy, 1, JALALI_BREAKS[1], 0, -14)
      n == jy - w.jp
      leapJ == w.leapJ + Div(n, 33) * 8 + Div(Mod(n, 33) + 3, 4)
                 + (IF Mod(w.jump, 33) = 4 /\ w.jump - n = 4 THEN 1 ELSE 0)
      gy == jy + 621
      leapG == Div(gy, 4) - Div((Div(gy, 100) + 1) * 3, 4) - 150
  IN  20 + leapJ - leapG

\* if (jy >= 1392 && jy <= 1407 && march === 20) march = 21
PatchedMarch(jy, march) ==
  IF jy >= 1392 /\ jy <= 1407 /\ march = 20 THEN 21 ELSE march

\* jalCal(jy): k = "throw" stands for the Error of an unsupported year
JalCal(jy) ==
  IF jy < JALALI_BREAKS[1] \/ jy > JALALI_BREAKS[Len(JALALI_BREAKS)]
    THEN [k |-> "throw", gy |-> 0, march |-> 0, leap |-> 0]
  ELSE
    LET w == BreaksWalk(jy, 1, JALALI_BREAKS[1], 0, -14)
        n0 == jy - w.jp
        n == IF w.jump - n0 < 6 THEN n0 - w.jump + Div(w.jump + 4, 33) * 33 ELSE n0
        leap0 == Mod(Mod(n + 1, 33) - 1, 4)
    IN  [k |-> "ok", gy |-> jy + 621, march |-> PatchedMarch(jy, TableMarch(jy)),
         leap |-> IF leap0 = -1 THEN 4 ELSE leap0]

\* days of the Jalali year before month jm, plus jd - 1
DayOfYear(jm, jd) == (jm - 1) * 31 - Div(jm, 7) * (jm - 7) + jd - 1

J2d(jy, jm, jd) ==
  LET r == JalCal(jy) IN G2d(r.gy, 3, r.march) + DayOfYear(jm, jd)

\* toGregorian, for a year jalCal accepts
ToGregorian(jy, jm, jd) == D2g(J2d(jy, jm, jd))

IsLeapJalaaliYear(jy) == JalCal(jy).k = "ok" /\ JalCal(jy).leap = 0

\* jalaaliMonthLength with the last month always 29 days long
MonthLengthNoLeap(jy, jm) == IF jm <= 6 THEN 31 ELSE IF jm <= 11 THEN 30 ELSE 29

JalaaliMonthLength(jy, jm) ==
  IF jm <= 6 THEN 31 ELSE IF jm <= 11 THEN 30
  ELSE IF IsLeapJalaaliYear(jy) THEN 30 ELSE 29

IsValidJalaaliDate(jy, jm, jd) ==
  /\ jy >= -61 /\ jy <= 3177
  /\ jm >= 1 /\ jm <= 12
  /\ jd >= 1 /\ jd <= JalaaliMonthLength(jy, jm)

\* ----------------------------------------------------------- normalizeTime24

\* the character at position i of s, "" past its ends
At(s, i) == IF i \in 1..Len(s) THEN s[i] ELSE ""

\* [:<ards>.] where "<ards>" is the Arabic decimal separator U+066B
IsTimeSep(c) == c \in {":", "<ards>", "."}

\* the length of group 1 when /(\d{1,2})[:<ards>.](\d{1,2})/ matches at i, else 0
HourLenAt(s, i) ==
  IF IsDec(At(s, i)) /\ IsDec(At(s, i + 1)) /\ IsTimeSep(At(s, i + 2)) /\ IsDec(At(s, i + 3))
    THEN 2
  ELSE IF IsDec(At(s, i)) /\ IsTimeSep(At(s, i + 1)) /\ IsDec(At(s, i + 2))
    THEN 1
  ELSE 0

\* toString().padStart(2, "0") of a clamped hour or minute
TwoDigits(n) == PadStart(NumToString(n), 2)

\* the parsed number used as it is, without Math.min and Math.max
Unclamped(hi, n) == n

\* Math.min(hi, Math.max(0, n))
Clamp(hi, n) == IF n > hi THEN hi ELSE IF n < 0 THEN 0 ELSE n

\* normalizeTime24; <<>> stands for undefined
NormalizeTime24(input) ==
  IF input = <<>> THEN <<>>
  ELSE
    LET s == DropSpaces(NormalizeDigits(input))
        starts == {i \in 1..Len(s) : HourLenAt(s, i) > 0}
    IN  IF starts = {} THEN <<>>
        ELSE
          LET i == Min(starts)
              hl == HourLenAt(s, i)
              ml == IF IsDec(At(s, i + hl + 2)) THEN 2 ELSE 1
              hh == Clamp(23, ParseInt(SubSeq(s, i, i + hl - 1)))
              mm == Clamp(59, ParseInt(SubSeq(s, i + hl + 1, i + hl + ml)))
          IN  TwoDigits(hh) \o <<":">> \o TwoDigits(mm)

\* ------------------------------------------------------------------ toIata

Uppers ==
  <<"A", "B", "C", "D", "E", "F", "G", "H", "I", "J", "K", "L", "M",
    "N", "O", "P", "Q", "R", "S", "T", "U", "V", "W", "X", "Y", "Z">>
Lowers ==
  <<"a", "b", "c", "d", "e", "f", "g", "h", "i", "j", "k", "l", "m",
    "n", "o", "p", "q", "r", "s", "t", "u", "v", "w", "x", "y", "z">>

\* [A-Z]
IsUpper(c) == \E i \in 1..26 : c = Uppers[i]
IsLower(c) == \E i \in 1..26 : c = Lowers[i]

\* \w, the characters between which \b finds no boundary
IsWordChar(c) == IsUpper(c) \/ IsLower(c) \/ IsDec(c) \/ c = "_"

\* toUpperCase left out
NotUpperCased(s) == s

\* String.prototype.toUpperCase ("<alef>", an Arabic letter, has no case)
ToUpperCase(s) ==
  [i \in 1..Len(s) |->
     IF IsLower(s[i]) THEN Uppers[CHOOSE k \in 1..26 : Lowers[k] = s[i]] ELSE s[i]]

\* [A-Z]{3} at position i of up
Letters3At(up, i) == \A k \in i..(i + 2) : IsUpper(At(up, k))

\* /^[A-Z]{3}$/.test(up)
IsCode(up) == Len(up) = 3 /\ Letters3At(up, 1)

\* where /\(([A-Z]{3})\)/ matches: the positions of the opening parenthesis
ParenStarts(up) ==
  {i \in 1..Len(up) : up[i] = "(" /\ Letters3At(up, i + 1) /\ At(up, i + 4) = ")"}

\* where /\b[A-Z]{3}\b/ matches
CodeStarts(up) ==
  {i \in 1..Len(up) :
     /\ Letters3At(up, i)
     /\ ~IsWordChar(At(up, i - 1))
     /\ ~IsWordChar(At(up, i + 3))}

\* toIata with the standalone token looked for before the parentheses
ToIataTokenFirst(s) ==
  LET up == ToUpperCase(Trim(s))
  IN  IF IsCode(up) THEN up
      ELSE IF CodeStarts(up) # {}
        THEN SubSeq(up, Min(CodeStarts(up)), Min(CodeStarts(up)) + 2)
      ELSE IF ParenStarts(up) # {}
        THEN SubSeq(up, Min(ParenStarts(up)) + 1, Min(ParenStarts(up)) + 3)
      ELSE up

ToIata(s) ==
  LET up == ToUpperCase(Trim(s))
  IN  IF IsCode(up) THEN up
      ELSE IF ParenStarts(up) # {}
        THEN SubSeq(up, Min(ParenStarts(up)) + 1, Min(ParenStarts(up)) + 3)
      ELSE IF CodeStarts(up) # {}
        THEN SubSeq(up, Min(CodeStarts(up)), Min(CodeStarts(up)) + 2)
      ELSE up

\* ------------------------------------------------------------ inferredType

\* a type is one token: "delay", "DELAY", ...
Allowed ==
  {<<"delay">>, <<"advance">>, <<"cancel">>, <<"number_change">>,
   <<"number_time_delay">>, <<"number_time_advance">>}

\* String.prototype.toLowerCase
ToLowerCase(s) == [i \in 1..Len(s) |-> Lower(s[i])]

\* inferredType with the time looked at before the new flight number
InferredTypeTimeFirst(rawType, newFlightNumber, newTime) ==
  IF rawType \in Allowed THEN rawType
  ELSE IF newTime # <<>> THEN <<"delay">>
  ELSE IF newFlightNumber # <<>> THEN <<"number_change">>
  ELSE <<>>

InferredType(rawType, newFlightNumber, newTime) ==
  IF rawType \in Allowed THEN rawType
  ELSE IF newFlightNumber # <<>> /\ newTime # <<>> THEN <<"number_time_delay">>
  ELSE IF newFlightNumber # <<>> THEN <<"number_change">>
  ELSE IF newTime # <<>> THEN <<"delay">>
  ELSE <<>>

\* -------------------------------------- the record built from the completion

\* largest month and day number written in a date text
MaxMonth == 13
MaxDay == 32
\* longest time text (in characters) and airport text (in words)
MaxTimeLen == 4
MaxIataWords == 4

\* s with its ASCII digits written in script sc
InScript(s, sc) ==
  [i \in 1..Len(s) |->
     IF ~IsDec(s[i]) \/ sc = "ascii" THEN s[i]
     ELSE LET v == CHOOSE k \in 1..10 : Digits[k] = s[i]
          IN  IF sc = "ar" THEN ArDigits[v] ELSE FaDigits[v]]

\* the date y, mo, d as a notice writes it
DateText(y, mo, d, st) ==
  LET w == IF st.pad THEN 2 ELSE 1
  IN  InScript(PadStart(NumToString(y), 4) \o <<st.sep>> \o PadStart(NumToString(mo), w)
                 \o <<st.sep>> \o PadStart(NumToString(d), w), st.script)

DateStyles ==
  {[sep |-> "/", script |-> "ascii", pad |-> TRUE],
   [sep |-> ".", script |-> "ascii", pad |-> TRUE],
   [sep |-> "-", script |-> "ascii", pad |-> FALSE],
   [sep |-> "/", script |-> "fa", pad |-> TRUE],
   [sep |-> "/", script |-> "ar", pad |-> FALSE]}

YearInputs ==
  {999, 1299, 1300, 1403, 1404, 1499, 1500, 1900, 1901, 2024, 2025, 2999, 3000, 9999}

\* date texts that are not three numbers and two separators
OddDates ==
  {<<>>, <<"t", "o", "d", "a", "y">>,
   <<SP, "1", "4", "0", "4", "/", "7", "/", "2", "6", NL>>,
   <<"1", "4", "0", "4", "/", "7", "/", "2", "6", SP, "1", "4", ":", "0", "0">>,
   <<"2", "6", "/", "7", "/", "1", "4", "0", "4">>,
   <<"1", "4", "0", "4", "/", "7">>,
   <<"1", "4", "0", "4", "0", "/", "7", "/", "2", "6">>,
   <<"1", "4", "0", "4", "/", "7", "/", "2", "6", "0">>}

TimeChars == {"2", "9", "<fa7>", ":", "<ards>", ".", SP, "h"}
TimeInputs ==
  StringsUpTo(TimeChars, MaxTimeLen)
    \cup {<<"1", "9", ":", "7", "5">>, <<"1", "4", ":", "0", "0">>,
          <<"2", "9", ":", "9", "2">>, <<"1", "2", "3", ":", "4", "5", "6">>}

RECURSIVE Flatten(_)
Flatten(ws) == IF ws = <<>> THEN <<>> ELSE Head(ws) \o Flatten(Tail(ws))

IataWords ==
  {<<"T", "H", "R">>, <<"i", "k", "a">>, <<"X">>, <<"(">>, <<")">>, <<SP>>, <<"1">>,
   <<"<alef>">>}

TypeInputs ==
  {<<>>, <<"delay">>, <<"DELAY">>, <<"advance">>, <<"cancel">>, <<"Cancel">>,
   <<"number_change">>, <<"Number_Change">>, <<"number_time_delay">>,
   <<"number_time_advance">>, <<"postponed">>, <<SP, "delay">>, <<"delay", "cancel">>}
FlightInputs == {<<>>, <<SP>>, <<"W", "5", "1", "1", "2">>, <<SP, "W", "5", SP>>}

\* the fields of obj the record is built from: each holds the text its
\* chain of aliases gives, e.g. String(obj.date || obj.flightDate || "")
PlainObj ==
  [airline |-> <<"W", "5">>, flightNumber |-> <<"1", "1", "2">>, date |-> <<>>,
   origin |-> <<>>, destination |-> <<>>, type |-> <<>>, newTime |-> <<>>,
   oldTime |-> <<>>, newFlightNumber |-> <<>>, newAirline |-> <<>>]

\* the objects explored: one field, or the fields of one normaliser, depart
\* from the plain object
IsObjInput(o) ==
  \/ \E y \in YearInputs, mo \in 0..MaxMonth, d \in 0..MaxDay, st \in DateStyles :
       o = [PlainObj EXCEPT !.date = DateText(y, mo, d, st)]
  \/ \E x \in OddDates : o = [PlainObj EXCEPT !.date = x]
  \/ \E x \in TimeInputs : o = [PlainObj EXCEPT !.newTime = x]
  \/ \E x \in {<<"1", "9", ":", "7", "5">>, <<"h">>}, y \in {<<>>, <<"9", ".", "2">>} :
       o = [PlainObj EXCEPT !.oldTime = x, !.newTime = y]
  \/ \E ws \in StringsUpTo(IataWords, MaxIataWords) :
       o = [PlainObj EXCEPT !.origin = Flatten(ws)]
  \/ \E x \in {<<"(", "i", "k", "a", ")">>, <<"1">>}, y \in {<<>>, <<"T", "H", "R">>} :
       o = [PlainObj EXCEPT !.destination = x, !.origin = y]
  \/ \E x \in TypeInputs, y \in FlightInputs,
        z \in {<<>>, <<"1", "4", ":", "0", "0">>, <<"h">>} :
       o = [PlainObj EXCEPT !.type = x, !.newFlightNumber = y, !.newTime = z]
  \/ \E x \in FlightInputs, y \in FlightInputs :
       o = [PlainObj EXCEPT !.airline = x, !.flightNumber = y, !.newAirline = x]

NoRecord ==
  [airline |-> <<>>, flightNumber |-> <<>>, date |-> <<>>, origin |-> <<>>,
   destination |-> <<>>, type |-> <<>>, oldTime |-> <<>>, newTime |-> <<>>,
   newFlightNumber |-> <<>>, newAirline |-> <<>>]

\* const result = { airline, flightNumber, date: dateISO || "", ... }
Result(obj) ==
  LET newTime == NormalizeTime24(obj.newTime)
      newFlightNumber == Trim(obj.newFlightNumber)
  IN  [airline |-> Trim(obj.airline),
       flightNumber |-> Trim(obj.flightNumber),
       date |-> NormalizeDateToISO(obj.date),
       origin |-> ToIata(Trim(obj.origin)),
       destination |-> ToIata(Trim(obj.destination)),
       type |-> InferredType(ToLowerCase(obj.type), newFlightNumber, newTime),
       oldTime |-> NormalizeTime24(obj.oldTime),
       newTime |-> newTime,
       newFlightNumber |-> newFlightNumber,
       newAirline |-> Trim(obj.newAirline)]

\* the fields the handler reads from obj, each as String(obj.f || ""): the
\* completions of the handler's sweep carry none of the flight fields
FieldsOf(obj) == [f \in DOMAIN PlainObj |-> <<>>]

RecInit ==
  /\ body = PlainBody /\ env = <<>> /\ Idle
  /\ fn = "record"
  /\ IsObjInput(arg)
  /\ ret = [built |-> FALSE, data |-> NoRecord]

\* from extractJson's return to res.json({ data: result, raw: text })
BuildRecord ==
  /\ fn = "record" /\ ~ret.built
  /\ ret' = [built |-> TRUE, data |-> Result(arg)]
  /\ UNCHANGED <<hvars, fn, arg>>

RecNext == BuildRecord

RecSpec == RecInit /\ [][RecNext]_vars

\* ------------------------------------------------- toGregorian on its own

\* the years a date text is read as Jalali in
JalaliFrom == 1300
JalaliTo == 1499

NoGregorian == [gy |-> 0, gm |-> 0, gd |-> 0]

JalInit ==
  /\ body = PlainBody /\ env = <<>> /\ Idle
  /\ fn = "toGregorian"
  /\ arg \in [jy : JalaliFrom..JalaliTo, jm : 1..12, jd : 1..31]
  /\ IsValidJalaaliDate(arg.jy, arg.jm, arg.jd)
  /\ ret = [done |-> FALSE, g |-> NoGregorian]

\* toGregorian(jy, jm, jd)
Convert ==
  /\ fn = "toGregorian" /\ ~ret.done
  /\ ret' = [done |-> TRUE, g |-> ToGregorian(arg.jy, arg.jm, arg.jd)]
  /\ UNCHANGED <<hvars, fn, arg>>

JalNext == Convert

JalSpec == JalInit /\ [][JalNext]_vars

\* ------------------------------------------------------ claims about dates

\* the Jalali calendar's conversion by the breakpoint table alone: Nowruz on
\* the day of March the table gives, with no year set apart
RefToGregorian(jy, jm, jd) ==
  D2g(G2d(jy + 621, 3, TableMarch(jy)) + DayOfYear(jm, jd))

\* the numbers Y, M, D of a date text of the form Y/M/D, <<>> for other texts
Triple(text) ==
  LET m == MatchDate(Trim(ReplaceAll(ReplaceAll(NormalizeDigits(text), ".", "/"), "-", "/")))
  IN  IF m = <<>> THEN <<>> ELSE <<ParseInt(m[1]), ParseInt(m[2]), ParseInt(m[3])>>

\* C12: the date of the record follows the year policy: a valid date with Y
\* in [1300,1499] gives the Gregorian ISO date of its conversion from the
\* Jalali calendar, Y in 1901..2999 gives Y-M-D zero-padded and unconverted,
\* any other year gives no date.
C12_YearPolicy ==
  (fn = "record" /\ ret.built /\ Triple(arg.date) # <<>>) =>
    LET y == Triple(arg.date)[1]
        mo == Triple(arg.date)[2]
        d == Triple(arg.date)[3]
        g == RefToGregorian(y, mo, d)
    IN  IF y >= JalaliFrom /\ y <= JalaliTo
          THEN IsValidJalaaliDate(y, mo, d) => ret.data.date = IsoDate(g.gy, g.gm, g.gd)
        ELSE IF y >= 1901 /\ y <= 2999
          THEN ret.data.date = IsoDate(y, mo, d)
        ELSE ret.data.date = <<>>

\* C13: for every valid Jalali date of the years 1300..1499, toGregorian is
\* the conversion by the breakpoint table with no year set apart, and agrees
\* with the known pairs.
C13_MatchesReference ==
  (fn = "toGregorian" /\ ret.done) =>
    /\ ret.g = RefToGregorian(arg.jy, arg.jm, arg.jd)
    /\ arg = [jy |-> 1404, jm |-> 7, jd |-> 26] => ret.g = [gy |-> 2025, gm |-> 10, gd |-> 18]
    /\ arg = [jy |-> 1403, jm |-> 1, jd |-> 1] => ret.g = [gy |-> 2024, gm |-> 3, gd |-> 20]
    /\ arg = [jy |-> 1399, jm |-> 1, jd |-> 1] => ret.g = [gy |-> 2020, gm |-> 3, gd |-> 20]

\* C14: a date text whose year is in the Jalali range and whose month is not
\* in 1..12, or whose day is not in 1..monthLength(year, month), gives no date.
C14_InvalidJalaliRejected ==
  (fn = "record" /\ ret.built /\ Triple(arg.date) # <<>>) =>
    LET y == Triple(arg.date)[1]
        mo == Triple(arg.date)[2]
        d == Triple(arg.date)[3]
    IN  (/\ y >= JalaliFrom /\ y <= JalaliTo
         /\ (mo < 1 \/ mo > 12 \/ d < 1 \/ d > JalaaliMonthLength(y, mo)))
          => ret.data.date = <<>>

\* the length of month m of the Gregorian year y
GregorianMonthLength(y, m) ==
  IF m \in {4, 6, 9, 11} THEN 30
  ELSE IF m # 2 THEN 31
  ELSE IF y % 4 = 0 /\ (y % 100 # 0 \/ y % 400 = 0) THEN 29 ELSE 28

\* YYYY-MM-DD
IsIsoForm(s) ==
  /\ Len(s) = 10
  /\ s[5] = "-" /\ s[8] = "-"
  /\ \A i \in (1..10) \ {5, 8} : IsDec(s[i])

\* C15: in every record returned, a non-empty date has the form YYYY-MM-DD
\* and is a real calendar day: its month is in 1..12 and its day is in
\* 1..(length of that month in that year).
C15_DateIsRealDay ==
  (fn = "record" /\ ret.built /\ ret.data.date # <<>>) =>
    /\ IsIsoForm(ret.data.date)
    /\ LET y == ParseInt(SubSeq(ret.data.date, 1, 4))
           mo == ParseInt(SubSeq(ret.data.date, 6, 7))
           d == ParseInt(SubSeq(ret.data.date, 9, 10))
       IN  /\ mo \in 1..12
           /\ d \in 1..GregorianMonthLength(y, mo)

\* -------------------------------------------- claims about type and time

\* C16: the record's type is the explicit type, lower-cased, when that is one
\* of the six allowed types; otherwise it is inferred: new flight number and
\* normalised new time both present give number_time_delay, a new flight
\* number alone number_change, a new time alone delay (so type "", no new
\* flight number and new time 14:00 give delay), neither gives "".  The type
\* is always one of the six or "".
C16_TypeClassified ==
  (fn = "record" /\ ret.built) =>
    LET explicit == ToLowerCase(arg.type)
        hasNumber == Trim(arg.newFlightNumber) # <<>>
        hasTime == ret.data.newTime # <<>>
        type == ret.data.type
    IN  /\ explicit \in Allowed => type = explicit
        /\ explicit \notin Allowed =>
             /\ (hasNumber /\ hasTime) => type = <<"number_time_delay">>
             /\ (hasNumber /\ ~hasTime) => type = <<"number_change">>
             /\ (~hasNumber /\ hasTime) => type = <<"delay">>
             /\ (~hasNumber /\ ~hasTime) => type = <<>>
        /\ type \in Allowed \cup {<<>>}
        /\ (/\ arg.type = <<>> /\ arg.newFlightNumber = <<>>
            /\ arg.newTime = <<"1", "4", ":", "0", "0">>) => type = <<"delay">>

\* no explicit type, no new flight number, a new time: the type is delay
C16_Witness ==
  /\ fn = "record" /\ ret.built
  /\ arg.type = <<>> /\ arg.newFlightNumber = <<>>
  /\ arg.newTime = <<"1", "4", ":", "0", "0">>
  /\ ret.data.type = <<"delay">>

\* HH:MM, two digits each, within 0..23 and 0..59
IsTime24(s) ==
  /\ Len(s) = 5 /\ s[3] = ":"
  /\ \A i \in {1, 2, 4, 5} : IsDec(s[i])
  /\ ParseInt(SubSeq(s, 1, 2)) \in 0..23
  /\ ParseInt(SubSeq(s, 4, 5)) \in 0..59

\* a text that is one or two ASCII digits, a separator, one or two ASCII digits
IsPlainTime(s) ==
  \E p \in {2, 3} :
    /\ Len(s) - p \in 1..2
    /\ IsTimeSep(s[p])
    /\ \A i \in (1..Len(s)) \ {p} : IsDec(s[i])

\* what the claim says of normalizeTime24's result out for the text in
TimeAsClaimed(in, out) ==
  /\ out = <<>> \/ IsTime24(out)
  /\ (\A i \in 1..Len(in) : ~IsTimeSep(in[i])) => out = <<>>
  /\ IsPlainTime(in) =>
       LET p == CHOOSE q \in {2, 3} : IsTimeSep(in[q])
           h == ParseInt(SubSeq(in, 1, p - 1))
           m == ParseInt(SubSeq(in, p + 1, Len(in)))
       IN  out = TwoDigits(IF h < 23 THEN h ELSE 23) \o <<":">>
                   \o TwoDigits(IF m < 59 THEN m ELSE 59)

\* C17: normalizeTime24 returns nothing (no text, or no hour-separator-minute
\* pattern in it) or HH:MM with two zero-padded digits each, HH = min(23, h)
\* and MM = min(59, m) for the matched hour and minute: values out of range
\* are clamped, not rejected (19:75 gives 19:59), and 0 <= HH <= 23 and
\* 0 <= MM <= 59 always.
C17_TimeClamped ==
  (fn = "record" /\ ret.built) =>
    /\ TimeAsClaimed(arg.newTime, ret.data.newTime)
    /\ TimeAsClaimed(arg.oldTime, ret.data.oldTime)
    /\ arg.oldTime = <<"1", "9", ":", "7", "5">> =>
         ret.data.oldTime = <<"1", "9", ":", "5", "9">>

\* hour and minute both out of range, both clamped
C17_Witness ==
  /\ fn = "record" /\ ret.built
  /\ arg.newTime = <<"2", "9", ":", "9", "2">>
  /\ ret.data.newTime = <<"2", "3", ":", "5", "9">>

\* ------------------------------------------------ claims about airport codes

\* three uppercase ASCII letters
IsThreeLetters(s) == Len(s) = 3 /\ \A i \in 1..3 : IsUpper(s[i])

\* C18 (as stated): in every record returned, origin and destination consist
\* only of uppercase ASCII letters, whatever the completion's text for them.
C18_OnlyUppercaseLetters ==
  (fn = "record" /\ ret.built) =>
    /\ \A i \in 1..Len(ret.data.origin) : IsUpper(ret.data.origin[i])
    /\ \A i \in 1..Len(ret.data.destination) : IsUpper(ret.data.destination[i])

\* what holds of a resolved code out for the text in
CodeOrVerbatim(in, out) ==
  /\ \A i \in 1..Len(out) : ~IsLower(out[i])
  /\ \/ IsThreeLetters(out)
     \/ out = ToUpperCase(Trim(in))

\* C18 (amended): in every record returned, origin and destination hold no
\* lowercase ASCII letter, and each is either three uppercase ASCII letters or
\* the trimmed, upper-cased text of the completion itself, which may hold
\* digits, blanks, punctuation and letters of other scripts.
C18_CodeOrVerbatim ==
  (fn = "record" /\ ret.built) =>
    /\ CodeOrVerbatim(arg.origin, ret.data.origin)
    /\ CodeOrVerbatim(arg.destination, ret.data.destination)

\* a text without a three-letter code is returned as it is, digit included
C18_Witness ==
  /\ fn = "record" /\ ret.built
  /\ arg.origin = <<"i", "k", "a", "1">>
  /\ ret.data.origin = <<"I", "K", "A", "1">>

\* C19: the resolver always returns a string, chosen in this priority: (a)
\* the trimmed, upper-cased input itself when it is exactly three letters;
\* else (b) the three letters of the first three-letter code in parentheses;
\* else (c) the first standalone three-letter token; else (d) the trimmed,
\* upper-cased input as it is.
C19_IataPriority ==
  (fn = "record" /\ ret.built) =>
    LET up == ToUpperCase(Trim(arg.origin))
        out == ret.data.origin
        InParens(i) == At(up, i) = "(" /\ Letters3At(up, i + 1) /\ At(up, i + 4) = ")"
        Standalone(i) ==
          Letters3At(up, i) /\ ~IsWordChar(At(up, i - 1)) /\ ~IsWordChar(At(up, i + 3))
        a == IsThreeLetters(up)
        b == \E i \in 1..Len(up) : InParens(i)
        c == \E i \in 1..Len(up) : Standalone(i)
    IN  /\ a => out = up
        /\ (~a /\ b) =>
             \E i \in 1..Len(up) :
               /\ InParens(i) /\ \A j \in 1..(i - 1) : ~InParens(j)
               /\ out = SubSeq(up, i + 1, i + 3)
        /\ (~a /\ ~b /\ c) =>
             \E i \in 1..Len(up) :
               /\ Standalone(i) /\ \A j \in 1..(i - 1) : ~Standalone(j)
               /\ out = SubSeq(up, i, i + 2)
        /\ (~a /\ ~b /\ ~c) => out = up

\* a standalone token comes first in the text, and the code in parentheses
\* is the one chosen
C19_Witness ==
  /\ fn = "record" /\ ret.built
  /\ arg.origin = <<"T", "H", "R", "(", "i", "k", "a", ")">>
  /\ ret.data.origin = <<"I", "K", "A">>

\* --------------------------------------------- normalizeDigits on its own

\* longest text (in characters) handed to normalizeDigits
MaxDigitsLen == 2

DigitChars ==
  {ArDigits[v] : v \in 1..10} \cup {FaDigits[v] : v \in 1..10} \cup {"5", "a", "/"}

NdInit ==
  /\ body = PlainBody /\ env = <<>> /\ Idle
  /\ fn = "normalizeDigits"
  /\ arg \in StringsUpTo(DigitChars, MaxDigitsLen)
  /\ ret = [calls |-> 0, once |-> <<>>, twice |-> <<>>]

\* normalizeDigits(s)
NormalizeOnce ==
  /\ fn = "normalizeDigits" /\ ret.calls = 0
  /\ ret' = [ret EXCEPT !.calls = 1, !.once = NormalizeDigits(arg)]
  /\ UNCHANGED <<hvars, fn, arg>>

\* normalizeDigits(normalizeDigits(s))
NormalizeTwice ==
  /\ fn = "normalizeDigits" /\ ret.calls = 1
  /\ ret' = [ret EXCEPT !.calls = 2, !.twice = NormalizeDigits(ret.once)]
  /\ UNCHANGED <<hvars, fn, arg>>

NdNext == NormalizeOnce \/ NormalizeTwice

NdSpec == NdInit /\ [][NdNext]_vars

\* C20: normalizeDigits keeps the length of s; each Arabic-Indic or Persian
\* digit is replaced by the ASCII digit of the same value and every other
\* character stays as it is, in place; the output holds no Arabic-Indic or
\* Persian digit; and normalising the output again changes nothing.
C20_DigitsNormalized ==
  fn = "normalizeDigits" =>
    /\ ret.calls >= 1 =>
         /\ Len(ret.once) = Len(arg)
         /\ \A i \in 1..Len(arg) :
              /\ \A v \in 1..10 :
                   arg[i] \in {ArDigits[v], FaDigits[v]} => ret.once[i] = Digits[v]
              /\ (\A v \in 1..10 : arg[i] \notin {ArDigits[v], FaDigits[v]})
                   => ret.once[i] = arg[i]
              /\ \A v \in 1..10 : ret.once[i] \notin {ArDigits[v], FaDigits[v]}
    /\ ret.calls = 2 => ret.twice = ret.once

\* a Persian and an Arabic-Indic digit were replaced, and replaced once only
C20_Witness ==
  /\ fn = "normalizeDigits" /\ ret.calls = 2
  /\ arg = <<"<fa7>", "<ar3>">>
  /\ ret.once = <<"7", "3">> /\ ret.twice = <<"7", "3">>

\* ------------------------------------ jalCal and jalaaliMonthLength on their own

\* how far below the first and above the last breakpoint the years explored go
YearMargin == 2

NoCal == [k |-> "none", gy |-> 0, march |-> 0, leap |-> 0]

CalInit ==
  /\ body = PlainBody /\ env = <<>> /\ Idle
  /\ fn = "jalCal"
  /\ arg \in [jy : (JALALI_BREAKS[1] - YearMargin)..
                     (JALALI_BREAKS[Len(JALALI_BREAKS)] + YearMargin),
              jm : 1..12]
  /\ ret = [cal |-> NoCal, len |-> 0]

\* jalCal(jy)
CallJalCal ==
  /\ fn = "jalCal" /\ ret.cal = NoCal
  /\ ret' = [ret EXCEPT !.cal = JalCal(arg.jy)]
  /\ UNCHANGED <<hvars, fn, arg>>

\* jalaaliMonthLength(jy, jm)
CallMonthLength ==
  /\ fn = "jalCal" /\ ret.len = 0
  /\ ret' = [ret EXCEPT !.len = JalaaliMonthLength(arg.jy, arg.jm)]
  /\ UNCHANGED <<hvars, fn, arg>>

CalNext == CallJalCal \/ CallMonthLength

CalSpec == CalInit /\ [][CalNext]_vars

\* the Julian day number of Nowruz of year jy by the breakpoint table alone
TableNowruz(jy) == G2d(jy + 621, 3, TableMarch(jy))

\* C21: for every supported Jalali year and every month 1..12 the month
\* length is 31 for months 1..6, 30 for months 7..11, and for month 12 it is
\* 30 in a leap year and 29 otherwise (a leap year being one whose Nowruz and
\* the next are 366 days apart); it is always 29, 30 or 31.
C21_MonthLength ==
  (fn = "jalCal" /\ ret.len # 0) =>
    /\ ret.len \in {29, 30, 31}
    /\ (arg.jy >= -61 /\ arg.jy <= 3177) =>
         /\ arg.jm \in 1..6 => ret.len = 31
         /\ arg.jm \in 7..11 => ret.len = 30
         /\ arg.jm = 12 =>
              /\ ret.len = (IF IsLeapJalaaliYear(arg.jy) THEN 30 ELSE 29)
              /\ ret.len = 30 <=> TableNowruz(arg.jy + 1) - TableNowruz(arg.jy) = 366

\* the last month of the leap year 1403 has 30 days
C21_Witness ==
  /\ fn = "jalCal" /\ arg = [jy |-> 1403, jm |-> 12]
  /\ ret.len = 30

\* C22: jalCal raises its range error for every year outside [-61, 3177] and
\* for no year inside, and the years it accepts are exactly the years
\* isValidJalaaliDate accepts.
C22_RangeError ==
  (fn = "jalCal" /\ ret.cal # NoCal) =>
    /\ ret.cal.k = "throw" <=> (arg.jy < -61 \/ arg.jy > 3177)
    /\ ret.cal.k = "ok" <=> IsValidJalaaliDate(arg.jy, 1, 1)

\* C24: for every supported year the March day of Nowruz that jalCal returns
\* is 20 + leapCount - gregorianLeapAdjustment(jy + 621), leapCount being the
\* count accumulated from the breakpoint table, whatever range the year is in.
C24_MarchFromTable ==
  (fn = "jalCal" /\ ret.cal.k = "ok") => ret.cal.march = TableMarch(arg.jy)

\* C23: a 2xx response whose candidate list is absent or empty, or whose first
\* text part is absent, is the empty completion: the sweep is over, no error
\* is reported, and the answer is a record with every field empty and raw "".
C23_EmptyCompletion ==
  (mode = "extract" /\ last.kind = "ok" /\ FirstText(okData) = <<>>) =>
    /\ pc = "done"
    /\ res.kind = "record" /\ res.raw = <<>>
    /\ Result(FieldsOf(ExtractJson(res.raw))) = NoRecord

\* the error answer made of a failed attempt's status and body
ReportOf(l) == ErrorRes(l.status, IF l.body # <<>> THEN l.body ELSE DefaultMessage)

C26_SelectedText ==
  (fn = "extractJson" /\ ret.at # "select") =>
    LET t == Trim(arg)
        N == 1..Len(t)
        IsBlock(i, j, c) ==
          /\ i < j /\ j < c
          /\ t[i] = FENCE /\ t[j] = NL /\ t[c] = FENCE
          /\ \A x \in (i + 1)..(j - 1) : IsWord(t[x])
          /\ \A x \in (j + 1)..(c - 1) : t[x] # FENCE
        Blocks == {b \in N \X N \X N : IsBlock(b[1], b[2], b[3])}
        first == CHOOSE b \in Blocks : \A o \in Blocks : b[1] <= o[1]
        chosen == IF Blocks = {} THEN t ELSE SubSeq(t, first[2] + 1, first[3] - 1)
        opens == {i \in 1..Len(chosen) : chosen[i] = "{"}
        closes == {i \in 1..Len(chosen) : chosen[i] = "}"}
        from == CHOOSE i \in opens : \A o \in opens : i <= o
        to == CHOOSE i \in closes : \A o \in closes : i >= o
        sel == IF opens # {} /\ closes # {}
                 THEN [i \in 1..(IF to >= from THEN to - from + 1 ELSE 0) |->
                         chosen[from + i - 1]]
                 ELSE chosen
        asIs == JsonParse(sel)
        normalized == JsonParse(NormalizeDigits(sel))
    IN  /\ ret.jsonStr = sel
        /\ ret.at = "returned" =>
             ret.value = IF asIs.k # "throw" THEN asIs
                         ELSE IF normalized.k # "throw" THEN normalized
                         ELSE JEmptyObject

\* C26 witness: prose, then a fenced block holding null: null is what is parsed
C26_Witness ==
  /\ fn = "extractJson"
  /\ arg = <<"hello", FENCE, NL, "null", FENCE>>
  /\ ret.at = "returned" /\ ret.jsonStr = <<"null">> /\ ret.value = JNull

\* the valid date that follows a valid date: the next day of the month, else
\* day 1 of the next month, else 1 Farvardin of the next year
NextJalaali(d) ==
  IF d.jd < JalaaliMonthLength(d.jy, d.jm) THEN [d EXCEPT !.jd = d.jd + 1]
  ELSE IF d.jm < 12 THEN [jy |-> d.jy, jm |-> d.jm + 1, jd |-> 1]
  ELSE [jy |-> d.jy + 1, jm |-> 1, jd |-> 1]

\* C27: for every valid Jalali date D of the years 1300..1499 the day number
\* j2d of the valid date that follows D is j2d(D) + 1, the Gregorian date
\* returned for D is the date of that day number, and the year of D, measured
\* from its Nowruz to the next, has 366 days exactly when it is leap and 365
\* otherwise.
C27_ConsecutiveDays ==
  (fn = "toGregorian" /\ ret.done) =>
    LET n == NextJalaali(arg)
    IN  /\ J2d(n.jy, n.jm, n.jd) = J2d(arg.jy, arg.jm, arg.jd) + 1
        /\ G2d(ret.g.gy, ret.g.gm, ret.g.gd) = J2d(arg.jy, arg.jm, arg.jd)
        /\ J2d(arg.jy + 1, 1, 1) - J2d(arg.jy, 1, 1) =
             IF IsLeapJalaaliYear(arg.jy) THEN 366 ELSE 365

\* the (model, apiVersion) pair requested at loop position p
PairAt(p) == <<models[p.m], ApiVersions[p.v]>>

\* C28: within one sweep no (model, apiVersion) pair is requested more than
\* once, whatever preferred model name the request carries.
C28_NoPairTwice ==
  \A i, j \in 1..Len(attempts) :
    i # j => PairAt(attempts[i]) # PairAt(attempts[j])

GregorianFrom == 1900
GregorianTo == 3000

NoDays == [at |-> "g2d", days |-> <<>>, next |-> 0, dates |-> <<>>]

\* a month of a year: g2d is applied to each of its days and to the first day
\* of the month after it, d2g to each day number obtained
GregInit ==
  /\ body = PlainBody /\ env = <<>> /\ Idle
  /\ fn = "d2g"
  /\ arg \in [gy : GregorianFrom..GregorianTo, gm : 1..12]
  /\ ret = NoDays

CallG2d ==
  /\ fn = "d2g" /\ ret.at = "g2d"
  /\ ret' = [ret EXCEPT
               !.at = "d2g",
               !.days = [d \in 1..GregorianMonthLength(arg.gy, arg.gm) |->
                           G2d(arg.gy, arg.gm, d)],
               !.next = IF arg.gm < 12 THEN G2d(arg.gy, arg.gm + 1, 1)
                        ELSE G2d(arg.gy + 1, 1, 1)]
  /\ UNCHANGED <<hvars, fn, arg>>

CallD2g ==
  /\ fn = "d2g" /\ ret.at = "d2g"
  /\ ret' = [ret EXCEPT
               !.at = "done",
               !.dates = [d \in 1..Len(ret.days) |-> D2g(ret.days[d])]]
  /\ UNCHANGED <<hvars, fn, arg>>

GregNext == CallG2d \/ CallD2g

GregSpec == GregInit /\ [][GregNext]_vars

\* C30: for every valid Gregorian date of the years 1900..3000, d2g of its
\* day number g2d is the date itself, and g2d grows by exactly 1 from each day
\* to the next, within the month and into the first day of the month after.
C30_GregorianInverse ==
  (fn = "d2g" /\ ret.at # "g2d") =>
    /\ \A d \in 1..(Len(ret.days) - 1) : ret.days[d + 1] = ret.days[d] + 1
    /\ ret.next = ret.days[Len(ret.days)] + 1
    /\ ret.at = "done" =>
         /\ Len(ret.dates) = GregorianMonthLength(arg.gy, arg.gm)
         /\ \A d \in 1..Len(ret.dates) :
              ret.dates[d] = [gy |-> arg.gy, gm |-> arg.gm, gd |-> d]

\* C30 witness: February of the century year 2100, 28 days, each found again
C30_Witness ==
  /\ fn = "d2g" /\ arg = [gy |-> 2100, gm |-> 2]
  /\ ret.at = "done"
  /\ Len(ret.dates) = 28
  /\ ret.dates[28] = [gy |-> 2100, gm |-> 2, gd |-> 28]
  /\ ret.next = ret.days[28] + 1

====
